---- MODULE Spec2Model ----
(***************************************************************************)
(* Model of backend/app.py: the /api/generate request handler              *)
(* (generate_video), the submission step                                   *)
(* (_submit_image_url_to_higgsfield), the status poller (_poll_higgs_any   *)
(* with its inner _try_poll), the result-URL extractor                     *)
(* (_find_any_video_url), the download step and the encoder call.          *)
(*                                                                         *)
(* One request is modelled.  The handler is a single coroutine: the code   *)
(* between two awaits runs without interleaving, so every action below is  *)
(* "an awaited call returns, and the handler runs to its next await (or to *)
(* its end)".  The remote provider, the uploads host and the encoder are   *)
(* the environment: each action draws their answer from a small set.       *)
(***************************************************************************)
EXTENDS Integers, Sequences, FiniteSets, TLC

(* ------------------------------ bounds -------------------------------- *)

\* Largest number of uploaded files in one request.
MaxImages == 2

\* The history counters of a status-endpoint family the poller has left are
\* kept up to this value ("0, 1, ..., HistoryCap or more").
HistoryCap == 2

(* ------------------------- program constants -------------------------- *)

\* range(240) in _try_poll: queries per status-endpoint family.
PollAttempts == 240

\* The two status-endpoint families, in the order _poll_higgs_any tries them.
Families == <<"/v1/tasks", "/v1/job-sets">>

\* Status terms _try_poll recognises at the top level of a response.
SuccessTerms == {"succeeded", "completed", "success", "finished", "done"}

\* Status terms _try_poll recognises on the entries of a jobs list.
JobSuccessTerms == {"completed", "succeeded", "finished", "done"}

\* Variant of FailureTerms: the "error" term is not recognised.
FailureTerms_OnlyFailed == {"failed"}

\* Status terms _try_poll recognises as a provider-reported failure.
FailureTerms == {"failed", "error"}

\* The fallback ladder of the design has at least this many rungs
\* (ordered attempt configurations tried per image).
LadderRungs == 6

(* --------------------------- JSON payloads ---------------------------- *)

\* A key that is missing from a JSON object (dict.get gives None).
Absent == "<absent>"

UrlA == "https://cdn.example/a.mp4"
UrlB == "https://cdn.example/b.mp4"
UrlPng == "https://cdn.example/thumb.png"

\* str.lower() on the status strings the sample payloads use.
Lower(s) ==
    CASE s = "Succeeded" -> "succeeded"
      [] s = "COMPLETED" -> "completed"
      [] s = "ERROR" -> "error"
      [] s = "IN_PROGRESS" -> "in_progress"
      [] OTHER -> s

\* ".mp4" in x, on the strings the sample payloads use.
HasMp4(s) == s \in {UrlA, UrlB}

\* isinstance(v, str): the key is present and holds a string.
IsStr(v) == v # Absent

\* Python truthiness of an optional string: None and "" are falsy.
Truthy(v) == v # Absent /\ v # ""

\* a or b, on optional strings.
Or(a, b) == IF Truthy(a) THEN a ELSE b

\* A status response body.  result/output stand for the nested objects'
\* video_url; outputs is a list of {url, type}; jobs is a list of
\* {status, results}, results being the values of the job's results mapping
\* in order; extra is any other string field of the object.
EmptyData ==
    [status |-> Absent, state |-> Absent, video_url |-> Absent,
     result_url |-> Absent, result |-> Absent, output |-> Absent,
     outputs |-> <<>>, jobs |-> <<>>, extra |-> Absent]

Out(u, t) == [url |-> u, type |-> t]
Job(s, rs) == [status |-> s, results |-> rs]

\* for o in outs: the first entry whose url is a string, or Absent.
RECURSIVE FirstUrl(_)
FirstUrl(seq) ==
    IF seq = <<>> THEN Absent
    ELSE IF IsStr(Head(seq).url) THEN Head(seq).url
    ELSE FirstUrl(Tail(seq))

\* for j in jobs: for v in results.values(): the first url that is a string.
RECURSIVE FirstJobUrl(_)
FirstJobUrl(jobs) ==
    IF jobs = <<>> THEN Absent
    ELSE LET u == FirstUrl(Head(jobs).results)
         IN IF u # Absent THEN u ELSE FirstJobUrl(Tail(jobs))

\* The first string of a list that contains ".mp4", or Absent.
RECURSIVE FirstMp4(_)
FirstMp4(strs) ==
    IF strs = <<>> THEN Absent
    ELSE IF HasMp4(Head(strs)) THEN Head(strs)
    ELSE FirstMp4(Tail(strs))

\* The string values of a list of {url, type} objects, in visiting order.
RECURSIVE OutStrings(_)
OutStrings(outs) ==
    IF outs = <<>> THEN <<>>
    ELSE <<Head(outs).url, Head(outs).type>> \o OutStrings(Tail(outs))

\* The string values of a jobs list, in visiting order.
RECURSIVE JobStrings(_)
JobStrings(jobs) ==
    IF jobs = <<>> THEN <<>>
    ELSE <<Head(jobs).status>> \o OutStrings(Head(jobs).results)
         \o JobStrings(Tail(jobs))

\* _walk: depth-first scan, in key order, for a string containing ".mp4".
Walk(data) ==
    FirstMp4(<<data.status, data.state, data.video_url, data.result_url,
               data.result, data.output>>
             \o OutStrings(data.outputs) \o JobStrings(data.jobs)
             \o <<data.extra>>)

\* _find_any_video_url: the first rule that yields a string wins, even if
\* that string is empty.
FindAnyVideoUrl(data) ==
    IF IsStr(data.video_url) THEN data.video_url
    ELSE IF IsStr(data.result_url) THEN data.result_url
    ELSE IF IsStr(data.result) THEN data.result
    ELSE IF IsStr(data.output) THEN data.output
    ELSE IF FirstUrl(data.outputs) # Absent THEN FirstUrl(data.outputs)
    ELSE IF FirstJobUrl(data.jobs) # Absent THEN FirstJobUrl(data.jobs)
    ELSE Walk(data)

\* status = (data.get("status") or data.get("state") or "").lower()
StatusOf(data) ==
    LET s == Or(data.status, Or(data.state, "")) IN Lower(s)

\* all(s in {...} for s in job_statuses) on a non-empty jobs list.
AllJobsDone(data) ==
    /\ data.jobs # <<>>
    /\ \A k \in 1..Len(data.jobs) :
          Lower(IF data.jobs[k].status = Absent THEN ""
                ELSE data.jobs[k].status) \in JobSuccessTerms

(* ----------------------- environment's answers ------------------------ *)

\* Sample status bodies the provider may send with a 2xx answer.
PollBodies ==
    { [EmptyData EXCEPT !.status = "queued"],
      [EmptyData EXCEPT !.state = "IN_PROGRESS"],
      EmptyData,
      [EmptyData EXCEPT !.status = "succeeded", !.video_url = UrlA],
      [EmptyData EXCEPT !.status = "COMPLETED", !.result_url = UrlB],
      [EmptyData EXCEPT !.state = "done", !.result = UrlA],
      [EmptyData EXCEPT
         !.status = "success",
         !.outputs = <<Out(UrlPng, "image"), Out(UrlA, "video")>>],
      [EmptyData EXCEPT !.status = "finished"],
      [EmptyData EXCEPT !.status = "Succeeded", !.video_url = "",
                        !.result_url = UrlB],
      [EmptyData EXCEPT !.status = "done", !.extra = UrlB],
      [EmptyData EXCEPT !.status = "failed", !.extra = "quota exceeded"],
      [EmptyData EXCEPT !.state = "ERROR"],
      [EmptyData EXCEPT !.jobs = <<Job("completed", <<Out(UrlA, "video")>>)>>],
      [EmptyData EXCEPT !.jobs = <<Job("done", <<>>)>>],
      [EmptyData EXCEPT !.jobs = <<Job("completed", <<Out(UrlB, "video")>>),
                                   Job("queued", <<>>)>>],
      [EmptyData EXCEPT !.jobs = <<Job("failed", <<>>)>>] }

\* An HTTP answer: code 0 stands for a transport failure (httpx raises),
\* data is the parsed body of a 2xx answer, text the body of an error answer.
Http(c, d, t) == [code |-> c, data |-> d, text |-> t]

\* Answers to GET {family}/{id}.
PollResponses ==
    {Http(200, d, "") : d \in PollBodies}
    \cup {Http(404, EmptyData, "not found"), Http(403, EmptyData, "forbidden"),
          Http(500, EmptyData, "upstream down"), Http(0, EmptyData, "")}

\* The provider gives every submission a fresh job id.
JobId(i) == "job-" \o ToString(i)

\* A submission response body: task_id, task.id and id.
SubmitBody(a, b, c) == [task_id |-> a, task |-> b, id |-> c]

\* Answers to POST HIGGS_SUBMIT_URL for the i-th image; json = FALSE is a
\* body that does not parse.
SubmitResponses(i) ==
    { [code |-> 200, json |-> TRUE, body |-> b] :
        b \in { SubmitBody(JobId(i), Absent, Absent),
                SubmitBody(Absent, JobId(i), "set-0"),
                SubmitBody("", Absent, JobId(i)),
                SubmitBody(Absent, Absent, Absent) } }
    \cup { [code |-> c, json |-> FALSE,
             body |-> SubmitBody(Absent, Absent, Absent)] :
             c \in {200, 422, 0} }

\* Outcomes of the preflight GET of the image URL.
PreflightResponses ==
    { [code |-> 200, image |-> TRUE], [code |-> 200, image |-> FALSE],
      [code |-> 404, image |-> FALSE], [code |-> 0, image |-> FALSE] }

\* Answers to the streaming GET of the result URL.
DownloadCodes == {200, 403, 0}

(* ------------------------------- state -------------------------------- *)

VARIABLES
    pc,               \* where the handler is suspended
    creds,            \* which of HF_API_KEY and HF_API_SECRET are set
    nFiles,           \* number of uploaded files in the request
    workdir,          \* the scratch directory exists
    saved_filenames,  \* images saved so far (by input index)
    sIdx,             \* index of the image being submitted
    job_ids,          \* job ids collected by the submission loop
    hIdx,             \* index of the job id being polled / downloaded
    fam,              \* index in Families of the family being polled
    tick,             \* loop variable of the running _try_poll
    pollUrl,          \* value returned by _poll_higgs_any
    out_paths,        \* clips downloaded so far (by job id)
    encoded,          \* the clip list handed to _concat_videos_mp4
    resp,             \* the response of the request
    exc,              \* the exception in flight (while the client is closed,
                      \* or when it left the handler uncaught)
    nq,               \* history: status queries per family, current handle
    sleeps,           \* history: asyncio.sleep calls per family, current handle
    committed,        \* history: first family that answered non-404
    lastResp,         \* history: the latest status answer, current handle
    subCount,         \* history: calls of the submission step per image
    httpCalls,        \* history: outbound HTTP calls other than status queries,
                      \* by kind, and the latest preflight answer
    encCalls          \* history: calls of _concat_videos_mp4

vars == <<pc, creds, nFiles, workdir, saved_filenames, sIdx, job_ids, hIdx,
          fam, tick, pollUrl, out_paths, encoded, resp, exc, nq, sleeps,
          committed, lastResp, subCount, httpCalls, encCalls>>

\* No response yet.
NoResp == [kind |-> "none", status |-> 0, msg |-> "", code |-> 0,
           body |-> "", payload |-> EmptyData]

\* No status answer yet.
NoAnswer == Http(-1, EmptyData, "")

\* raise HTTPException(status_code, detail), re-raised by generate_video.
HttpError(st, m, c, t, d) ==
    [kind |-> "http_exception", status |-> st, msg |-> m, code |-> c,
     body |-> t, payload |-> d]

\* except Exception: JSONResponse(status_code=500, content={"error": ...}).
JsonError(m) ==
    [kind |-> "json_error", status |-> 500, msg |-> m, code |-> 0,
     body |-> "", payload |-> EmptyData]

\* asyncio.CancelledError, thrown into the handler at an await.
CancelledError ==
    [kind |-> "cancelled", status |-> 0, msg |-> "CancelledError", code |-> 0,
     body |-> "", payload |-> EmptyData]

\* FileResponse(final_path).
FileResp ==
    [kind |-> "file", status |-> 200, msg |-> "final.mp4", code |-> 0,
     body |-> "", payload |-> EmptyData]

ZeroQueries == [f \in 1..Len(Families) |-> 0]

\* No outbound call other than a status query has been made.
NoCalls == [preflight |-> 0, post |-> 0, download |-> 0,
            answer |-> [code |-> -1, image |-> FALSE]]

\* History counters of the family the poller leaves are capped.
Capped(n) == IF n > HistoryCap THEN HistoryCap ELSE n

Init ==
    /\ pc = "request"
    /\ creds \in [key : BOOLEAN, secret : BOOLEAN]
    /\ nFiles \in 0..MaxImages
    /\ workdir = FALSE
    /\ saved_filenames = <<>>
    /\ sIdx = 0
    /\ job_ids = <<>>
    /\ hIdx = 0
    /\ fam = 0
    /\ tick = 0
    /\ pollUrl = Absent
    /\ out_paths = <<>>
    /\ encoded = <<>>
    /\ resp = NoResp
    /\ exc = NoResp
    /\ nq = ZeroQueries
    /\ sleeps = ZeroQueries
    /\ committed = 0
    /\ lastResp = NoAnswer
    /\ subCount = [i \in 1..MaxImages |-> 0]
    /\ httpCalls = NoCalls
    /\ encCalls = 0

\* Variant of Fail: the error is answered and the scratch directory is left.
Fail_KeepsWorkdir(r) ==
    /\ UNCHANGED workdir
    /\ resp' = r
    /\ pc' = "done"
    /\ UNCHANGED <<sIdx, hIdx, fam, tick, pollUrl>>

\* The except clauses of generate_video: remove the scratch directory and
\* answer with the error.  The loop variables keep the values they had when
\* the exception was raised.  Also the raises before the try block and the
\* client (_require_env, "No input images.").
Fail(r) ==
    /\ workdir' = FALSE
    /\ resp' = r
    /\ pc' = "done"
    /\ UNCHANGED <<sIdx, hIdx, fam, tick, pollUrl>>

\* An exception leaves the body of "async with httpx.AsyncClient()": the
\* close of the client is awaited with the exception in flight, before any
\* except clause of generate_video runs.
Raise(r) ==
    /\ exc' = r
    /\ pc' = "close"
    /\ UNCHANGED <<workdir, resp, sIdx, hIdx, fam, tick, pollUrl>>

(* ------------------------------ _try_poll ----------------------------- *)

\* Variant of IsNotFound: a 404 is not told apart from the other answers.
IsNotFound_Never(r) == FALSE

\* if r.status_code == 404: return None
IsNotFound(r) == r.code = 404

\* Variant of IsHardError: only 5xx answers are hard errors.
IsHardError_Only5xx(r) == r.code >= 500

\* if r.status_code >= 400: raise HTTPException(502, "Poll error: HTTP ...")
IsHardError(r) == r.code >= 400

\* Variant of ReadyOutcome: the extracted value is returned unchecked.
ReadyOutcome_Unchecked(data) ==
    [kind |-> "url", url |-> FindAnyVideoUrl(data)]

\* vu = _find_any_video_url(data); if not vu: raise ...; return vu
ReadyOutcome(data) ==
    LET vu == FindAnyVideoUrl(data)
    IN IF Truthy(vu) THEN [kind |-> "url", url |-> vu]
       ELSE [kind |-> "missing", url |-> Absent]

\* What one iteration of the loop of _try_poll does with the answer r.
TickOutcome(r) ==
    IF r.code = 0 THEN [kind |-> "transport", url |-> Absent]
    ELSE IF IsNotFound(r) THEN [kind |-> "not_found", url |-> Absent]
    ELSE IF IsHardError(r) THEN [kind |-> "http_error", url |-> Absent]
    ELSE LET status == StatusOf(r.data)
         IN IF status = "" /\ AllJobsDone(r.data) THEN ReadyOutcome(r.data)
            ELSE IF status \in SuccessTerms THEN ReadyOutcome(r.data)
            ELSE IF status \in FailureTerms
                 THEN [kind |-> "failed", url |-> Absent]
            ELSE [kind |-> "pending", url |-> Absent]

\* Variant of LoopExhausted: the loop runs one iteration too many.
LoopExhausted_OneMore(t) == t >= PollAttempts

\* for _ in range(240): the iteration with index t was the last one.
LoopExhausted(t) == t + 1 >= PollAttempts

\* Variant of HasNextFamily: a 404 from the first family ends the poll.
HasNextFamily_Never(f) == f < 1

\* _poll_higgs_any tries the next family after a None from _try_poll.
HasNextFamily(f) == f < Len(Families)

\* History: the first family to answer non-404 for the handle.
Commit(c, f, o) ==
    IF c = 0 /\ o.kind \notin {"not_found", "transport"} THEN f ELSE c

\* An awaited GET {family}/{id} returns; _try_poll runs to its next await:
\* the GET to the next family, asyncio.sleep(3), the download, or the close
\* of the client with the raised exception in flight.
PollTick ==
    /\ pc = "poll"
    /\ \E r \in PollResponses :
         LET o == TickOutcome(r) IN
         /\ lastResp' = r
         /\ committed' = Commit(committed, fam, o)
         /\ \/ /\ o.kind = "not_found"
               /\ HasNextFamily(fam)
               /\ fam' = fam + 1
               /\ tick' = 0
               /\ nq' = [nq EXCEPT ![fam] = Capped(@ + 1)]
               /\ sleeps' = [sleeps EXCEPT ![fam] = Capped(@)]
               /\ UNCHANGED <<exc, pc, workdir, resp, sIdx, hIdx, pollUrl>>
            \/ /\ o.kind = "not_found"
               /\ ~HasNextFamily(fam)
               /\ Raise(HttpError(502, "Poll error: unknown resource id",
                                  0, "", EmptyData))
               /\ nq' = [nq EXCEPT ![fam] = @ + 1]
               /\ UNCHANGED sleeps
            \/ /\ o.kind = "http_error"
               /\ Raise(HttpError(502, "Poll error: HTTP",
                                  r.code, r.text, EmptyData))
               /\ nq' = [nq EXCEPT ![fam] = @ + 1]
               /\ UNCHANGED sleeps
            \/ /\ o.kind = "transport"
               /\ Raise(JsonError("status query failed"))
               /\ nq' = [nq EXCEPT ![fam] = @ + 1]
               /\ UNCHANGED sleeps
            \/ /\ o.kind = "missing"
               /\ Raise(HttpError(502, "Task ready but video url missing",
                                  0, "", r.data))
               /\ nq' = [nq EXCEPT ![fam] = @ + 1]
               /\ UNCHANGED sleeps
            \/ /\ o.kind = "failed"
               /\ Raise(HttpError(502, "Generation failed", 0, "",
                                  r.data))
               /\ nq' = [nq EXCEPT ![fam] = @ + 1]
               /\ UNCHANGED sleeps
            \/ /\ o.kind = "url"
               /\ pc' = "download"
               /\ pollUrl' = o.url
               /\ nq' = [nq EXCEPT ![fam] = @ + 1]
               /\ UNCHANGED <<exc, workdir, resp, sIdx, hIdx, fam, tick,
                              sleeps>>
            \/ /\ o.kind = "pending"
               /\ pc' = "sleep"
               /\ nq' = [nq EXCEPT ![fam] = @ + 1]
               /\ sleeps' = [sleeps EXCEPT ![fam] = @ + 1]
               /\ UNCHANGED <<exc, workdir, resp, sIdx, hIdx, pollUrl, fam,
                              tick>>
    /\ UNCHANGED <<creds, nFiles, saved_filenames, job_ids, out_paths,
                   encoded, subCount, httpCalls, encCalls>>

\* asyncio.sleep(3) returns: the next iteration sends its GET, or the loop
\* is over and _try_poll raises the timeout.
WakeUp ==
    /\ pc = "sleep"
    /\ \/ /\ ~LoopExhausted(tick)
          /\ tick' = tick + 1
          /\ pc' = "poll"
          /\ UNCHANGED <<exc, workdir, resp, sIdx, hIdx, pollUrl, fam>>
       \/ /\ LoopExhausted(tick)
          /\ Raise(HttpError(504, "Generation timed out", 0, "",
                             EmptyData))
    /\ UNCHANGED <<creds, nFiles, saved_filenames, job_ids, out_paths,
                   encoded, nq, sleeps, committed, lastResp, subCount,
                   httpCalls, encCalls>>

(* --------------------------- generate_video --------------------------- *)

\* Variant of RequireEnvOk: only the key is looked at.
RequireEnvOk_KeyOnly(c) == c.key

\* _require_env: not (HF_API_KEY and HF_API_SECRET) raises.
RequireEnvOk(c) == c.key /\ c.secret

\* The handler starts: _require_env, mkdtemp, and the first await
\* (uf.read() of the first file) or, without files, "No input images.".
Start ==
    /\ pc = "request"
    /\ \/ /\ ~RequireEnvOk(creds)
          /\ Fail(HttpError(500, "Server is missing HF_API_KEY/HF_API_SECRET",
                            0, "", EmptyData))
       \/ /\ RequireEnvOk(creds)
          /\ nFiles = 0
          /\ Fail(HttpError(400, "No input images.", 0, "", EmptyData))
       \/ /\ RequireEnvOk(creds)
          /\ nFiles > 0
          /\ workdir' = TRUE
          /\ pc' = "read"
          /\ UNCHANGED <<resp, sIdx, hIdx, fam, tick, pollUrl>>
    /\ UNCHANGED <<creds, nFiles, saved_filenames, job_ids, out_paths,
                   encoded, exc, nq, sleeps, committed, lastResp, subCount,
                   httpCalls, encCalls>>

\* await uf.read() returns: the file is written, shrunk and recorded; after
\* the last file the client is opened and the first preflight GET is sent.
ReadFile ==
    /\ pc = "read"
    /\ saved_filenames' = Append(saved_filenames, Len(saved_filenames) + 1)
    /\ IF Len(saved_filenames') < nFiles
       THEN UNCHANGED <<pc, sIdx, subCount>>
       ELSE /\ pc' = "preflight"
            /\ sIdx' = 1
            /\ subCount' = [subCount EXCEPT ![1] = @ + 1]
    /\ UNCHANGED <<creds, nFiles, workdir, job_ids, hIdx, fam, tick, pollUrl,
                   out_paths, encoded, resp, exc, nq, sleeps, committed,
                   lastResp, httpCalls, encCalls>>

\* Variant of PreflightOk: the content type is not looked at.
PreflightOk_AnyType(r) == r.code # 0 /\ r.code < 400

\* The preflight GET passes: status below 400 and an image content type.
PreflightOk(r) == r.code # 0 /\ r.code < 400 /\ r.image

\* The preflight GET of _submit_image_url_to_higgsfield returns.  Every
\* failure inside the try block, the HTTPExceptions included, is re-raised
\* as "Preflight to image_url error".
Preflight ==
    /\ pc = "preflight"
    /\ \E r \in PreflightResponses :
         /\ httpCalls' = [httpCalls EXCEPT !.preflight = @ + 1, !.answer = r]
         /\ \/ /\ PreflightOk(r)
               /\ pc' = "post"
               /\ UNCHANGED <<exc, workdir, resp, sIdx, hIdx, fam, tick,
                              pollUrl>>
            \/ /\ ~PreflightOk(r)
               /\ Raise(HttpError(502, "Preflight to image_url error",
                                  r.code, "", EmptyData))
    /\ UNCHANGED <<creds, nFiles, saved_filenames, job_ids, out_paths,
                   encoded, nq, sleeps, committed, lastResp, subCount,
                   encCalls>>

\* jid = res.get("task_id") or (res.get("task") or {}).get("id")
\*       or res.get("id")
JobIdOf(body) == Or(body.task_id, Or(body.task, body.id))

\* _poll_higgs_any starts on a handle: the first family, a fresh loop.
StartPoll(k) ==
    /\ pc' = "poll"
    /\ hIdx' = k
    /\ fam' = 1
    /\ tick' = 0
    /\ pollUrl' = Absent
    /\ nq' = ZeroQueries
    /\ sleeps' = ZeroQueries
    /\ committed' = 0
    /\ lastResp' = NoAnswer

\* Variant of MoreImages: the submission loop stops after the first image.
MoreImages_FirstOnly(k, saved) == k < 1

\* for fname in saved_filenames: another image follows
\* the k-th.
MoreImages(k, saved) == k < Len(saved)

\* The POST to HIGGS_SUBMIT_URL returns; the job id is taken from the body.
\* After the last image the polling loop starts with the first job id.
Post ==
    /\ pc = "post"
    /\ httpCalls' = [httpCalls EXCEPT !.post = @ + 1]
    /\ \E r \in SubmitResponses(sIdx) :
         \/ /\ r.code = 0
            /\ Raise(JsonError("submission request failed"))
            /\ UNCHANGED <<job_ids, subCount, nq, sleeps, committed, lastResp>>
         \/ /\ r.code >= 400
            /\ Raise(HttpError(502, "Submit error: HTTP",
                               r.code, "", EmptyData))
            /\ UNCHANGED <<job_ids, subCount, nq, sleeps, committed, lastResp>>
         \/ /\ r.code # 0 /\ r.code < 400
            /\ ~r.json
            /\ Raise(HttpError(502, "Submit non-JSON response",
                               0, "", EmptyData))
            /\ UNCHANGED <<job_ids, subCount, nq, sleeps, committed, lastResp>>
         \/ /\ r.code # 0 /\ r.code < 400
            /\ r.json
            /\ ~Truthy(JobIdOf(r.body))
            /\ Raise(HttpError(502, "Unexpected submit result (no id)",
                               0, "", EmptyData))
            /\ UNCHANGED <<job_ids, subCount, nq, sleeps, committed, lastResp>>
         \/ /\ r.code # 0 /\ r.code < 400
            /\ r.json
            /\ Truthy(JobIdOf(r.body))
            /\ job_ids' = Append(job_ids, JobIdOf(r.body))
            /\ IF MoreImages(sIdx, saved_filenames)
               THEN /\ sIdx' = sIdx + 1
                    /\ pc' = "preflight"
                    /\ subCount' = [subCount EXCEPT ![sIdx + 1] = @ + 1]
                    /\ UNCHANGED <<hIdx, fam, tick, pollUrl, nq, sleeps,
                                   committed, lastResp>>
               ELSE /\ StartPoll(1)
                    /\ UNCHANGED <<sIdx, subCount>>
            /\ UNCHANGED <<exc, workdir, resp>>
    /\ UNCHANGED <<creds, nFiles, saved_filenames, out_paths, encoded,
                   encCalls>>

\* Variant of AppendClip: the newest clip is put first.
AppendClip_Front(paths, clip) == <<clip>> \o paths

\* out_paths.append(vid_path)
AppendClip(paths, clip) == Append(paths, clip)

\* Variant of MoreHandles: the loop over the job ids stops after the first.
MoreHandles_FirstOnly(k, ids) == k < 1

\* for jid in job_ids: another job id follows the k-th.
MoreHandles(k, ids) == k < Len(ids)

\* The download answered with a status below 400 and the stream was read.
DownloadOk(c) == c # 0 /\ c < 400

\* The streaming GET of the result URL ends.  The clip fetched for a job id
\* is the clip the provider made for that job.  After the last download the
\* close of the client is awaited.
Download ==
    /\ pc = "download"
    /\ httpCalls' = [httpCalls EXCEPT !.download = @ + 1]
    /\ \E c \in DownloadCodes :
         \/ /\ c = 0
            /\ Raise(JsonError("download failed"))
            /\ UNCHANGED <<out_paths, nq, sleeps, committed, lastResp>>
         \/ /\ c # 0
            /\ ~DownloadOk(c)
            /\ Raise(HttpError(502, "Download error: HTTP", c, "",
                               EmptyData))
            /\ UNCHANGED <<out_paths, nq, sleeps, committed, lastResp>>
         \/ /\ DownloadOk(c)
            /\ out_paths' = AppendClip(out_paths, job_ids[hIdx])
            /\ IF MoreHandles(hIdx, job_ids)
               THEN StartPoll(hIdx + 1)
               ELSE /\ pc' = "close"
                    /\ UNCHANGED <<hIdx, fam, tick, pollUrl, nq, sleeps,
                                   committed, lastResp>>
            /\ UNCHANGED <<exc, workdir, resp, sIdx>>
    /\ UNCHANGED <<creds, nFiles, saved_filenames, job_ids, encoded, subCount,
                   encCalls>>

\* The close of the client at the end of "async with httpx.AsyncClient()"
\* returns: an HTTPException or Exception in flight reaches the except
\* clauses of generate_video, a CancelledError in flight is caught by
\* neither and leaves the handler, and without an exception the handler
\* goes on to the encoder.
CloseClient ==
    /\ pc = "close"
    /\ \/ /\ exc = NoResp
          /\ pc' = "encode"
          /\ UNCHANGED <<workdir, resp, sIdx, hIdx, fam, tick, pollUrl>>
       \/ /\ exc = CancelledError
          /\ pc' = "cancelled"
          /\ UNCHANGED <<workdir, resp, sIdx, hIdx, fam, tick, pollUrl>>
       \/ /\ exc \notin {NoResp, CancelledError}
          /\ Fail(exc)
    /\ UNCHANGED <<creds, nFiles, saved_filenames, job_ids, out_paths,
                   encoded, exc, nq, sleeps, committed, lastResp, subCount,
                   httpCalls, encCalls>>

\* if not out_paths: raise; _concat_videos_mp4(out_paths, final_path); the
\* removal of the scratch directory is left to a background task and the
\* file response is returned.  A failing encoder is answered with a JSON
\* error after the scratch directory is removed.
Encode ==
    /\ pc = "encode"
    /\ \/ /\ out_paths = <<>>
          /\ Fail(HttpError(500, "No clips were generated.", 0, "", EmptyData))
          /\ UNCHANGED <<encoded, encCalls>>
       \/ /\ out_paths # <<>>
          /\ encCalls' = encCalls + 1
          /\ encoded' = out_paths
          /\ \/ /\ resp' = FileResp
                /\ pc' = "responded"
                /\ UNCHANGED <<workdir, sIdx, hIdx, fam, tick, pollUrl>>
             \/ Fail(JsonError("encoder failed"))
    /\ UNCHANGED <<creds, nFiles, saved_filenames, job_ids, out_paths, exc,
                   nq, sleeps, committed, lastResp, subCount, httpCalls>>

\* The background task runs after the response: shutil.rmtree(workdir).
Cleanup ==
    /\ pc = "responded"
    /\ workdir' = FALSE
    /\ pc' = "done"
    /\ UNCHANGED <<creds, nFiles, saved_filenames, sIdx, job_ids, hIdx, fam,
                   tick, pollUrl, out_paths, encoded, resp, exc, nq, sleeps,
                   committed, lastResp, subCount, httpCalls, encCalls>>

Next ==
    \/ Start
    \/ ReadFile
    \/ Preflight
    \/ Post
    \/ PollTick
    \/ WakeUp
    \/ Download
    \/ CloseClient
    \/ Encode
    \/ Cleanup

Spec == Init /\ [][Next]_vars

\* The event loop runs every ready continuation and every awaited call
\* returns (each has a timeout), so the handler always takes its next step.
FairSpec == Spec /\ WF_vars(Next)

\* The awaits of generate_video inside its try block: uf.read(), the
\* preflight GET, the POST, the status GET, asyncio.sleep, the download and
\* the close of the client at the end of the "async with" block.
SuspensionPoints ==
    {"read", "preflight", "post", "poll", "sleep", "download", "close"}

\* The awaits in the body of "async with httpx.AsyncClient()".
InClient == {"preflight", "post", "poll", "sleep", "download"}

\* The request's task is cancelled while it is suspended: CancelledError is
\* raised at the await.  Raised in the body of the "async with" block, it
\* first reaches the exit of the block, and the handler is suspended again
\* in the close of the client with CancelledError in flight.  Raised at
\* uf.read() or in the close of the client, it leaves the handler at once:
\* CancelledError is a BaseException, so neither "except HTTPException" nor
\* "except Exception" runs, and the try block has no finally clause.  The
\* handler is left without a response and nothing touches the scratch
\* directory.
Cancel ==
    /\ pc \in SuspensionPoints
    /\ pc' = IF pc \in InClient THEN "close" ELSE "cancelled"
    /\ exc' = CancelledError
    /\ UNCHANGED <<creds, nFiles, workdir, saved_filenames, sIdx, job_ids,
                   hIdx, fam, tick, pollUrl, out_paths, encoded, resp, nq,
                   sleeps, committed, lastResp, subCount, httpCalls,
                   encCalls>>

\* The handler with a client or server that may abandon the request.
AbandonNext ==
    \/ Next
    \/ Cancel

AbandonSpec == Init /\ [][AbandonNext]_vars

(* ------------------------------ properties ---------------------------- *)

LastFamily == Len(Families)

\* The latest status answer is a 2xx whose status is a recognised success
\* term (at the top level, or on every entry of a jobs list).
LastIsReady ==
    /\ lastResp.code = 200
    /\ \/ StatusOf(lastResp.data) \in SuccessTerms
       \/ StatusOf(lastResp.data) = "" /\ AllJobsDone(lastResp.data)

\* The messages of the errors _poll_higgs_any raises.
PollErrorMsgs ==
    {"Poll error: unknown resource id", "Poll error: HTTP",
     "Task ready but video url missing", "Generation failed",
     "Generation timed out", "status query failed"}

\* The messages of the errors _submit_image_url_to_higgsfield raises, and of
\* the missing job id.
SubmitErrorMsgs ==
    {"Preflight to image_url error", "Submit error: HTTP",
     "Submit non-JSON response", "Unexpected submit result (no id)",
     "submission request failed"}

\* C1: a 404 from a family that is not the last one never ends the poll: the
\* poller is then querying the next family, from its first iteration, and
\* no response has been produced; and when a family after the first answers
\* with a recognised success status and a usable result URL, the poll
\* returns exactly that URL.
C1_NotFoundMovesOn ==
    /\ (lastResp.code = 404 /\ nq[LastFamily] = 0)
         => (pc = "poll" /\ fam > 1 /\ tick = 0 /\ resp = NoResp)
    /\ (nq[LastFamily] > 0 /\ LastIsReady
        /\ Truthy(FindAnyVideoUrl(lastResp.data)))
         => /\ pc \notin {"poll", "sleep"}
            /\ pollUrl = FindAnyVideoUrl(lastResp.data)
            /\ resp.msg \notin PollErrorMsgs
            /\ exc.msg \notin PollErrorMsgs

\* C1 witness: /v1/tasks answered 404 once, /v1/job-sets then answered
\* "succeeded" with a video_url, and the poll returned it.
C1_Witness ==
    /\ pc = "download"
    /\ nq[1] = 1
    /\ fam = LastFamily
    /\ lastResp.data.status = "succeeded"
    /\ pollUrl = UrlA

\* C2: once a family has answered non-404 for the handle, every status
\* query in flight for that handle is addressed to that family.
C2_CommitsToFamily ==
    (pc = "poll" /\ committed # 0) => fam = committed

\* C3 (as claimed): the poll of one handle never sends more than 240 status
\* queries in total.
C3_BudgetPerHandle ==
    nq[1] + nq[LastFamily] <= PollAttempts

\* Every family is queried at most 240 times for a handle, and the timeout
\* error is raised exactly when 240 queries to one family were all answered
\* without a terminal status.
C3_Bounded ==
    /\ \A f \in 1..LastFamily : nq[f] <= PollAttempts
    /\ tick < PollAttempts
    /\ (exc.status = 504)
         <=> (pc \in {"close", "done"} /\ fam # 0 /\ nq[fam] = PollAttempts
              /\ sleeps[fam] = PollAttempts)
    /\ (resp.status = 504) <=> (pc = "done" /\ exc.status = 504)

\* C3 (amended), with termination: the bounds above always hold and every
\* request eventually ends.
C3_BudgetPerFamily == []C3_Bounded /\ <>(pc = "done")

\* C3 witness: the request ended with the timeout error after 240 queries
\* to the second family, more than 240 queries in total.
C3_Witness ==
    /\ pc = "done"
    /\ resp.status = 504
    /\ fam = LastFamily
    /\ nq[1] + nq[LastFamily] > PollAttempts

\* C4: the poll never returns an empty URL, and a tick with a recognised
\* success status but no usable URL ends the poll at once with the
\* "ready but url missing" error, which is neither the timeout nor the
\* provider-failure error; the client is closed and that error is the
\* response of the request.
C4_ReadyNeedsUrl ==
    /\ pc = "download" => Truthy(pollUrl)
    /\ (LastIsReady /\ ~Truthy(FindAnyVideoUrl(lastResp.data)))
         => /\ pc \in {"close", "done"}
            /\ exc = HttpError(502, "Task ready but video url missing", 0,
                               "", lastResp.data)
            /\ pc = "done" => resp = exc
            /\ exc.status # 504
            /\ exc.msg \notin {"Generation failed", "Generation timed out"}
            /\ sleeps[fam] = nq[fam] - 1

\* C4 witness: a "finished" answer without any URL ended the request with
\* the "ready but url missing" error.
C4_Witness ==
    /\ pc = "done"
    /\ lastResp.data.status = "finished"
    /\ resp.msg = "Task ready but video url missing"

\* C5: a tick whose answer carries a recognised failure status ends the
\* poll at once with the "Generation failed" error carrying the raw
\* payload: no sleep follows the query and no other family is probed; the
\* client is closed and that error is the response of the request.
C5_FailureIsImmediate ==
    (lastResp.code = 200
     /\ Lower(Or(lastResp.data.status, Or(lastResp.data.state, "")))
          \in {"failed", "error"})
      => /\ pc \in {"close", "done"}
         /\ exc = HttpError(502, "Generation failed", 0, "", lastResp.data)
         /\ pc = "done" => resp = exc
         /\ sleeps[fam] = nq[fam] - 1
         /\ \A f \in (fam + 1)..LastFamily : nq[f] = 0

\* C5 witness: the answer state "ERROR" ended the request after earlier
\* pending ticks.
C5_Witness ==
    /\ pc = "done"
    /\ resp.msg = "Generation failed"
    /\ resp.payload.state = "ERROR"
    /\ nq[fam] > 1

\* C6: a status answer with an HTTP status of 400 or more other than 404
\* ends the poll at once with the "Poll error: HTTP" error carrying the
\* status and the body; the next family is not probed and nothing is
\* retried; the client is closed and that error is the response.
C6_HardHttpError ==
    (lastResp.code >= 400 /\ lastResp.code # 404)
      => /\ pc \in {"close", "done"}
         /\ exc = HttpError(502, "Poll error: HTTP", lastResp.code,
                            lastResp.text, EmptyData)
         /\ pc = "done" => resp = exc
         /\ sleeps[fam] = nq[fam] - 1
         /\ \A f \in (fam + 1)..LastFamily : nq[f] = 0

\* C6 witness: the first family answered 403 and the request ended with
\* the hard poll error.
C6_Witness ==
    /\ pc = "done"
    /\ fam = 1
    /\ resp.msg = "Poll error: HTTP"
    /\ resp.code = 403
    /\ resp.body = "forbidden"

\* The image whose submission or poll was under way.
CurrentImage == IF hIdx # 0 THEN hIdx ELSE sIdx

\* The request ended with an error of a submission or of a poll.
RungFailed ==
    /\ pc = "done"
    /\ resp.msg \in SubmitErrorMsgs \cup PollErrorMsgs

\* The number of failed attempts (submission or poll) made for image i.
FailedAttempts(i) == IF RungFailed /\ CurrentImage = i THEN 1 ELSE 0

\* C7: every failed attempt for an image that is not on the last rung is
\* followed by the submission of the next rung: an image with j failed
\* attempts, j below the length of the ladder, has had exactly j + 1
\* submissions (so k submissions when rung k is the first to succeed).
C7_AdvancesToNextRung ==
    \A i \in 1..nFiles :
      (subCount[i] > 0 /\ FailedAttempts(i) < LadderRungs)
        => subCount[i] = FailedAttempts(i) + 1

\* C8: a submission or poll error is the response of the request only when
\* every rung of the ladder has been submitted for that image.
C8_OnlyAfterWholeLadder ==
    RungFailed => subCount[CurrentImage] >= LadderRungs

\* C9: the clip list handed to the encoder has, at every position i, the
\* clip of the job submitted for input image i.
C9_ClipOrder ==
    encCalls > 0
      => /\ Len(encoded) = nFiles
         /\ \A i \in 1..Len(encoded) : encoded[i] = JobId(i)

\* C9 witness: a two-image request handed both clips to the encoder.
C9_Witness ==
    /\ pc = "responded"
    /\ nFiles = MaxImages
    /\ Len(encoded) = MaxImages

\* C10: the encoder runs, and a file is answered, only with one clip per
\* input image; a request that ends on a submission, poll or download error
\* answers with an error and never ran the encoder.
C10_AllOrNothing ==
    /\ (encCalls > 0 \/ resp.kind = "file")
         => /\ Len(out_paths) = nFiles
            /\ encoded = out_paths
            /\ encCalls = 1
            /\ \A i \in 1..nFiles :
                 Cardinality({k \in 1..Len(encoded) :
                                encoded[k] = JobId(i)}) = 1
    /\ pc = "done" => resp.kind # "none"
    /\ (pc = "done"
        /\ resp.msg \in SubmitErrorMsgs \cup PollErrorMsgs
                        \cup {"Download error: HTTP", "download failed"})
         => /\ encCalls = 0
            /\ encoded = <<>>
            /\ resp.kind \in {"http_exception", "json_error"}
            /\ resp.status >= 400
    /\ exc # NoResp
         => /\ pc \in {"close", "done"}
            /\ pc = "done" => resp = exc
            /\ exc.msg \in SubmitErrorMsgs \cup PollErrorMsgs
                            \cup {"Download error: HTTP", "download failed"}
            /\ encCalls = 0
            /\ encoded = <<>>

\* C10 witness: the first image's clip was downloaded, the second image's
\* download failed, and the request ended with the error.
C10_Witness ==
    /\ pc = "done"
    /\ Len(out_paths) = 1
    /\ hIdx = MaxImages
    /\ resp.msg = "Download error: HTTP"

\* The response when a credential is missing.
MissingCredentials ==
    HttpError(500, "Server is missing HF_API_KEY/HF_API_SECRET", 0, "",
              EmptyData)

\* C11: a successful request with exactly one input image never ran the
\* encoder: the file answered is the downloaded clip, not an encoder output.
C11_SingleClipVerbatim ==
    (nFiles = 1 /\ resp.kind = "file") => (encCalls = 0 /\ encoded = <<>>)

\* C12: while a credential is missing the request is either not yet handled
\* or over with the configuration error, and nothing else ever happened: no
\* scratch directory, no saved upload, no preflight, submission, status
\* query or download.
C12_ConfigErrorFirst ==
    ~(creds.key /\ creds.secret)
      => /\ pc \in {"request", "done"}
         /\ pc = "done" => resp = MissingCredentials
         /\ pc = "request" => resp = NoResp
         /\ exc = NoResp
         /\ ~workdir
         /\ saved_filenames = <<>>
         /\ httpCalls = NoCalls
         /\ nq = ZeroQueries
         /\ lastResp = NoAnswer
         /\ \A i \in 1..MaxImages : subCount[i] = 0
         /\ job_ids = <<>> /\ out_paths = <<>> /\ encCalls = 0

\* C12 witness: images were uploaded with the key set and the secret
\* missing, and the request ended with the configuration error.
C12_Witness ==
    /\ pc = "done"
    /\ creds.key /\ ~creds.secret
    /\ nFiles > 0
    /\ resp = MissingCredentials

\* The scratch directory exists from the start of the handler to its exit:
\* every error response is produced with the directory already removed, the
\* file response is produced with the directory still there, and a finished
\* request has no directory.
C13_ExistsUntilExit ==
    /\ resp.kind \in {"http_exception", "json_error"}
         => (pc = "done" /\ ~workdir)
    /\ pc = "responded" => (resp.kind = "file" /\ workdir)
    /\ pc \in SuspensionPoints \cup {"encode"} => (workdir /\ resp = NoResp)
    /\ pc = "done" => ~workdir

\* C13: the scratch directory is removed on every exit path: on any failure
\* it is gone when the error is answered; on success it is still there when
\* the file response is produced and is removed afterwards.
C13_WorkspaceRemoved ==
    /\ []C13_ExistsUntilExit
    /\ (pc = "responded") ~> (pc = "done" /\ ~workdir /\ resp.kind = "file")

\* C13 witness: a clip had been downloaded into the scratch directory, the
\* next download failed, and the error was answered with the directory gone.
C13_Witness ==
    /\ pc = "done"
    /\ Len(out_paths) = 1
    /\ resp.msg \in {"Download error: HTTP", "download failed"}
    /\ ~workdir

\* C14: a request abandoned at a suspension point leaves no scratch
\* directory behind.
C14_RemovedOnCancel ==
    pc = "cancelled" => ~workdir

\* The images whose job has been sent at least one status query: the jobs
\* before the one being polled, and that one once a query was answered.
PolledImages ==
    {j \in 1..nFiles :
       hIdx # 0 /\ (j < hIdx \/ (j = hIdx /\ nq # ZeroQueries))}

\* C15: a slow image does not delay the status queries of the others: when
\* the poll of an image has been through a sleep and is sending its next
\* status query, the job of every later image has already been queried.
C15_SlowImageDoesNotDelay ==
    \A i \in 1..nFiles :
      (hIdx = i /\ pc = "poll" /\ tick > 0)
        => \A j \in (i + 1)..nFiles : j \in PolledImages

\* The status of the first entry of the jobs list, lower-cased.
FirstJobStatus(data) ==
    Lower(IF data.jobs[1].status = Absent THEN "" ELSE data.jobs[1].status)

\* C16: when the latest status answer has no top-level status and carries a
\* jobs list, the first job decides: on a success term the tick ended as a
\* success (the URL returned, or the missing-URL error), and on a failure
\* term the poll ended at once with the failure error.
C16_FirstJobDecides ==
    (lastResp.code = 200 /\ StatusOf(lastResp.data) = ""
     /\ lastResp.data.jobs # <<>>)
      => /\ FirstJobStatus(lastResp.data) \in JobSuccessTerms
              => IF Truthy(FindAnyVideoUrl(lastResp.data))
                 THEN /\ pc \notin {"poll", "sleep"}
                      /\ pollUrl = FindAnyVideoUrl(lastResp.data)
                 ELSE /\ pc \in {"close", "done"}
                      /\ exc.msg = "Task ready but video url missing"
         /\ FirstJobStatus(lastResp.data) \in FailureTerms
              => /\ pc \in {"close", "done"}
                 /\ exc.msg = "Generation failed"

\* An entry of an outputs list is a video: by its type or by its url.
IsVideoEntry(o) == o.type = "video" \/ HasMp4(o.url)

\* C17: when the poll returned a URL taken from an outputs list that holds
\* a video entry, the URL returned is the url of a video entry.
C17_PrefersVideoEntry ==
    LET data == lastResp.data
        outs == data.outputs
    IN (/\ pc = "download"
        /\ ~IsStr(data.video_url) /\ ~IsStr(data.result_url)
        /\ ~IsStr(data.result) /\ ~IsStr(data.output)
        /\ \E k \in 1..Len(outs) : IsVideoEntry(outs[k]))
         => \E k \in 1..Len(outs) :
               IsVideoEntry(outs[k]) /\ pollUrl = outs[k].url

\* The number of calls of the submission step so far, over all images.
RECURSIVE SumCounts(_, _)
SumCounts(f, n) == IF n = 0 THEN 0 ELSE f[n] + SumCounts(f, n - 1)

SubmissionsStarted == SumCounts(subCount, MaxImages)

\* The messages of the errors that follow the POST of a submission.
PostErrorMsgs ==
    {"Submit error: HTTP", "Submit non-JSON response",
     "Unexpected submit result (no id)", "submission request failed"}

\* C18 (as claimed): the submission steps never made more outbound HTTP
\* calls than one per submission.
C18_OneCallPerSubmission ==
    httpCalls.preflight + httpCalls.post <= SubmissionsStarted

\* C18 (amended): a submission makes one preflight GET of the image URL
\* and, only after that GET answered below 400 with an image content type,
\* one POST; neither is repeated.  A failed preflight ends the request
\* without a POST, and every POST either added a job id or ended the
\* request with an error.
C18_PreflightThenPost ==
    /\ \A i \in 1..MaxImages : subCount[i] <= 1
    /\ httpCalls.preflight
         = SubmissionsStarted - (IF pc = "preflight" THEN 1 ELSE 0)
    /\ httpCalls.post
         = Len(job_ids) + (IF exc.msg \in PostErrorMsgs THEN 1 ELSE 0)
    /\ pc = "post"
         => /\ httpCalls.answer.code \in 1..399
            /\ httpCalls.answer.image
            /\ httpCalls.post = httpCalls.preflight - 1
    /\ exc.msg = "Preflight to image_url error"
         => /\ ~(httpCalls.answer.code \in 1..399 /\ httpCalls.answer.image)
            /\ httpCalls.post = httpCalls.preflight - 1
    /\ (pc \notin {"preflight", "post"}
        /\ exc.msg # "Preflight to image_url error")
         => httpCalls.post = httpCalls.preflight

\* C18 witness: the second image's preflight answered 200 with a body that
\* is not an image, after the first image was submitted with two calls.
C18_Witness ==
    /\ pc = "done"
    /\ resp.msg = "Preflight to image_url error"
    /\ httpCalls.answer = [code |-> 200, image |-> FALSE]
    /\ httpCalls.preflight = 2
    /\ httpCalls.post = 1
    /\ Len(job_ids) = 1

\* C19: the images are submitted one after another in input order, and the
\* first status query is sent only when every image has been submitted, with
\* one POST each; a request that ends on a submission error, or on a
\* response without a job id, never sent a status query or a download, also
\* not for the jobs it had already submitted.
C19_SubmitAllThenPoll ==
    /\ \A i \in 1..Len(job_ids) : job_ids[i] = JobId(i)
    /\ pc \in {"preflight", "post"} => Len(job_ids) = sIdx - 1
    /\ \A i \in 1..MaxImages : subCount[i] > 0 <=> (sIdx # 0 /\ i <= sIdx)
    /\ (\/ pc \in {"poll", "sleep", "download", "encode", "responded"}
        \/ hIdx # 0
        \/ nq # ZeroQueries
        \/ lastResp # NoAnswer
        \/ httpCalls.download > 0
        \/ out_paths # <<>>)
         => /\ Len(job_ids) = nFiles
            /\ sIdx = nFiles
            /\ httpCalls.post = nFiles
    /\ (exc.msg \in SubmitErrorMsgs \/ resp.msg \in SubmitErrorMsgs)
         => /\ pc \in {"close", "done"}
            /\ hIdx = 0
            /\ nq = ZeroQueries
            /\ lastResp = NoAnswer
            /\ httpCalls.download = 0
            /\ out_paths = <<>>

\* C19 witness: the first image was submitted, the POST for the second
\* image was refused, and the request ended without a status query.
C19_Witness ==
    /\ pc = "done"
    /\ resp.msg = "Submit error: HTTP"
    /\ sIdx = 2
    /\ job_ids = <<JobId(1)>>
    /\ hIdx = 0
    /\ nq = ZeroQueries

\* The error raised when no family knows the id.
UnknownResource ==
    HttpError(502, "Poll error: unknown resource id", 0, "", EmptyData)

\* C20: a poll whose last answer is a 404 ended with the unknown-resource
\* error (502), on the last family, and that error is the response once the
\* client is closed; and when no family ever answered anything but 404,
\* that error came after exactly one status query to each family and
\* without a sleep.
C20_AllNotFound ==
    /\ (pc \in {"close", "done"} /\ lastResp.code = 404)
         => /\ exc = UnknownResource
            /\ pc = "done" => resp = UnknownResource
            /\ fam = LastFamily
            /\ pollUrl = Absent
    /\ (exc = UnknownResource /\ committed = 0)
         => /\ \A f \in 1..LastFamily : nq[f] = 1 /\ sleeps[f] = 0
            /\ tick = 0
    /\ exc = UnknownResource
         => (pc \in {"close", "done"} /\ lastResp.code = 404)
    /\ resp = UnknownResource => exc = UnknownResource

\* C20 witness: /v1/tasks and /v1/job-sets both answered 404 to their first
\* query and the request ended with the unknown-resource error.
C20_Witness ==
    /\ pc = "done"
    /\ resp = UnknownResource
    /\ committed = 0
    /\ nq = [f \in 1..LastFamily |-> 1]
    /\ sleeps = ZeroQueries

====
